---- MODULE Spec2Model ----
(***************************************************************************)
(* monitor_rdv.py: a polling loop that fetches the visible text of one     *)
(* page, classifies it with regular expressions as AVAILABLE or NONE and   *)
(* notifies on every change of the label.                                  *)
(*                                                                         *)
(* A text is a sequence of characters; a character is a one-character      *)
(* string, except the non-ASCII ones, written "e'" (e acute), "E'"         *)
(* (capital e acute), "long-s" (U+017F) and "nbsp" (U+00A0).               *)
(***************************************************************************)
EXTENDS Integers, Sequences, FiniteSets, TLC

VARIABLES
    pc,            \* position of the process in monitor_rdv.py
    HEADLESS,      \* module-level configuration, line 26
    TELEGRAM_BOT_TOKEN,   \* line 29: TRUE when the variable is set
    TELEGRAM_CHAT_ID,     \* line 30: TRUE when the variable is set
    content_text,  \* main(): text of the last fetch
    has_slots,     \* main(): line 138
    status,        \* main(): line 139
    last_status,   \* main(): line 129, 151
    exc,           \* exception in flight ("none" when there is none)
    hstack,        \* handlers the exception in flight has still to pass
    exit_code,     \* "running", 0 or 1
    effects,       \* what the current cycle has done so far, in order
    labels,        \* label classified by each cycle of the window, in order
    dispatched     \* label of each notification of the window, in order

vars == <<pc, HEADLESS, TELEGRAM_BOT_TOKEN, TELEGRAM_CHAT_ID, content_text,
          has_slots, status, last_status, exc, hstack, exit_code, effects,
          labels, dispatched>>

-----------------------------------------------------------------------------
(* Characters                                                              *)

LowerLetters == <<"a", "b", "c", "d", "e", "f", "g", "h", "i", "j", "k", "l", "m",
                  "n", "o", "p", "q", "r", "s", "t", "u", "v", "w", "x", "y", "z", "e'">>

UpperLetters == <<"A", "B", "C", "D", "E", "F", "G", "H", "I", "J", "K", "L", "M",
                  "N", "O", "P", "Q", "R", "S", "T", "U", "V", "W", "X", "Y", "Z", "E'">>

Range(f) == {f[i] : i \in DOMAIN f}

Digits == {"0", "1", "2", "3", "4", "5", "6", "7", "8", "9"}

\* what \s matches on a str: ASCII whitespace and the Unicode spaces
Whitespace == {" ", "\n", "\t", "nbsp"}

\* what \w matches on a str: letters of any script, digits, underscore
WordChars == Range(LowerLetters) \cup Range(UpperLetters) \cup {"long-s"} \cup Digits \cup {"_"}

IndexOf(c, f) == CHOOSE i \in DOMAIN f : f[i] = c

\* str.lower() on one character: an upper-case letter becomes its lower-case
\* letter, anything else (U+017F is already lower case) is unchanged
LowerChar(c) == IF c \in Range(UpperLetters) THEN LowerLetters[IndexOf(c, UpperLetters)] ELSE c

lower(text) == [i \in DOMAIN text |-> LowerChar(text[i])]

-----------------------------------------------------------------------------
(* The subset of the re module the two classifiers use.  A pattern is a    *)
(* sequence of items: a word boundary, or a character class repeated       *)
(* between lo and hi times (unbounded when many is TRUE).                  *)

Class(S, lo, hi, many) == [k |-> "class", set |-> S, lo |-> lo, hi |-> hi, many |-> many]

One(c) == Class({c}, 1, 1, FALSE)

OneOf(S) == Class(S, 1, 1, FALSE)

Optional(c) == Class({c}, 0, 1, FALSE)

\* \s+
Spaces == Class(Whitespace, 1, 1, TRUE)

\* \b
Boundary == [k |-> "boundary"]

Literal(w) == [i \in DOMAIN w |-> One(w[i])]

IsWordAt(s, i) == i >= 1 /\ i <= Len(s) /\ s[i] \in WordChars

\* \b holds at position i (before s[i]) when exactly one side is a word character
AtBoundary(s, i) == IsWordAt(s, i - 1) # IsWordAt(s, i)

RECURSIVE MatchFrom(_, _, _, _)
\* items j.. of pattern p match s starting at position i
MatchFrom(p, j, s, i) ==
    IF j > Len(p) THEN TRUE
    ELSE IF p[j].k = "boundary" THEN AtBoundary(s, i) /\ MatchFrom(p, j + 1, s, i)
    ELSE LET left == Len(s) - i + 1
             top  == IF p[j].many \/ p[j].hi > left THEN left ELSE p[j].hi
         IN  \E n \in p[j].lo .. top :
                /\ \A d \in 0 .. (n - 1) : s[i + d] \in p[j].set
                /\ MatchFrom(p, j + 1, s, i + n)

\* re.search(p, s) is not None
search(p, s) == \E i \in 1 .. (Len(s) + 1) : MatchFrom(p, 1, s, i)

\* re.sub(r"\s+", " ", s)
sub_spaces(s) ==
    LET F[i \in 0 .. Len(s)] ==
            IF i = 0 THEN <<>>
            ELSE IF s[i] \in Whitespace
                 THEN IF i > 1 /\ s[i - 1] \in Whitespace THEN F[i - 1] ELSE Append(F[i - 1], " ")
                 ELSE Append(F[i - 1], s[i])
    IN  F[Len(s)]

-----------------------------------------------------------------------------
(* looks_like_no_availability, looks_like_timeslot                          *)

EAccent == {"e", "e'"}

Creneau == Literal(<<"c", "r">>) \o <<OneOf(EAccent)>> \o Literal(<<"n", "e", "a", "u">>)

Disponibilit == Literal(<<"d", "i", "s", "p", "o", "n", "i", "b", "i", "l", "i", "t">>) \o <<OneOf(EAccent)>>

\* aucun(?:e)?\s+cr[ée]neau\s+disponible
PatAucunCreneau ==
    Literal(<<"a", "u", "c", "u", "n">>) \o <<Optional("e"), Spaces>> \o Creneau
        \o <<Spaces>> \o Literal(<<"d", "i", "s", "p", "o", "n", "i", "b", "l", "e">>)

\* pas\s+de\s+cr[ée]neau
PatPasDeCreneau ==
    Literal(<<"p", "a", "s">>) \o <<Spaces>> \o Literal(<<"d", "e">>) \o <<Spaces>> \o Creneau

\* plus\s+de\s+plage\s+horaire
PatPlusDePlage ==
    Literal(<<"p", "l", "u", "s">>) \o <<Spaces>> \o Literal(<<"d", "e">>) \o <<Spaces>>
        \o Literal(<<"p", "l", "a", "g", "e">>) \o <<Spaces>>
        \o Literal(<<"h", "o", "r", "a", "i", "r", "e">>)

\* plus\s+de\s+disponibilit[ée]s?
PatPlusDeDisponibilite ==
    Literal(<<"p", "l", "u", "s">>) \o <<Spaces>> \o Literal(<<"d", "e">>) \o <<Spaces>>
        \o Disponibilit \o <<Optional("s")>>

\* aucune\s+disponibilit[ée]
PatAucuneDisponibilite ==
    Literal(<<"a", "u", "c", "u", "n", "e">>) \o <<Spaces>> \o Disponibilit

NoAvailabilityPatterns ==
    {PatAucunCreneau, PatPasDeCreneau, PatPlusDePlage, PatPlusDeDisponibilite, PatAucuneDisponibilite}

\* \b\d{1,2}[:hH]\d{2}\b
PatHourMinute ==
    <<Boundary, Class(Digits, 1, 2, FALSE), OneOf({":", "h", "H"}), Class(Digits, 2, 2, FALSE), Boundary>>

\* \b\d{1,2}h\b
PatHour == <<Boundary, Class(Digits, 1, 2, FALSE), One("h"), Boundary>>

TimeslotPatterns == {PatHourMinute, PatHour}

looks_like_no_availability(text) ==
    \E text_low \in {sub_spaces(lower(text))} :
        \E p \in NoAvailabilityPatterns : search(p, text_low)

\* looks_like_timeslot without the pattern of line 73
looks_like_timeslot_minutes_only(text) ==
    \E text_low \in {sub_spaces(lower(text))} :
        search(PatHourMinute, text_low)

looks_like_timeslot(text) ==
    \E text_low \in {sub_spaces(lower(text))} :
        \E p \in TimeslotPatterns : search(p, text_low)

-----------------------------------------------------------------------------
(* Exceptions.  An exception in flight is one of three kinds; hstack holds *)
(* the except clauses around the raising statement, innermost first.  The  *)
(* last one is the clause of the __main__ block.                           *)

Timeout == "PlaywrightTimeoutError"

Fault == "Error"

Interrupted == "KeyboardInterrupt"

\* isinstance(e, cls) for the classes the except clauses name: KeyboardInterrupt
\* derives from BaseException, not from Exception
\* an except clause that also stops what is not an Exception (a bare except)
CatchesBroad(e, cls) ==
    \/ cls = "Exception"
    \/ cls = e

\* an except clause that stops only the class it names, not its subclasses
CatchesExact(e, cls) == cls = e

\* an except PlaywrightTimeoutError clause that stops every Exception
CatchesAnyError(e, cls) ==
    \/ cls \in {"Exception", "PlaywrightTimeoutError"} /\ e \in {Timeout, Fault}
    \/ cls = e

Catches(e, cls) ==
    \/ cls = "Exception" /\ e \in {Timeout, Fault}
    \/ cls = e

Frame(cls, handler, resume) == [catches |-> cls, then |-> handler, resume |-> resume]

TopFrame == Frame("KeyboardInterrupt", "shutdown", "exited")

\* the except clauses with one try around the whole notification: a failed
\* screenshot abandons what is left of it
HandlersAbandon(p) ==
    CASE p = "goto"          -> <<Frame("PlaywrightTimeoutError", "log:goto_timeout", "ensure"), TopFrame>>
      [] p = "input"         -> <<Frame("KeyboardInterrupt", "raise", "input"), TopFrame>>
      [] p = "fetch"         -> <<Frame("PlaywrightTimeoutError", "empty_text", "classify"), TopFrame>>
      [] p = "avail_beep"    -> <<Frame("Exception", "pass", "avail_capture"), TopFrame>>
      [] p = "avail_capture" -> <<Frame("Exception", "log:screenshot_failed", "reload"), TopFrame>>
      [] p = "none_capture"  -> <<Frame("Exception", "log:screenshot_failed", "reload"), TopFrame>>
      [] p = "avail_post"    -> <<Frame("Exception", "log:telegram_failed", "assign"), TopFrame>>
      [] p = "reload"        -> <<Frame("PlaywrightTimeoutError", "log:reload_timeout", "sleep"), TopFrame>>
      [] OTHER               -> <<TopFrame>>

\* the except clauses enclosing the statement at position p
HandlersAt(p) ==
    CASE p = "goto"          -> <<Frame("PlaywrightTimeoutError", "log:goto_timeout", "ensure"), TopFrame>>
      [] p = "input"         -> <<Frame("KeyboardInterrupt", "raise", "input"), TopFrame>>
      [] p = "fetch"         -> <<Frame("PlaywrightTimeoutError", "empty_text", "classify"), TopFrame>>
      [] p = "avail_beep"    -> <<Frame("Exception", "pass", "avail_capture"), TopFrame>>
      [] p = "avail_capture" -> <<Frame("Exception", "log:screenshot_failed", "avail_send"), TopFrame>>
      [] p = "none_capture"  -> <<Frame("Exception", "log:screenshot_failed", "assign"), TopFrame>>
      [] p = "avail_post"    -> <<Frame("Exception", "log:telegram_failed", "assign"), TopFrame>>
      [] p = "reload"        -> <<Frame("PlaywrightTimeoutError", "log:reload_timeout", "sleep"), TopFrame>>
      [] OTHER               -> <<TopFrame>>

Running ==
    {"start", "goto", "ensure", "input", "monitor", "fetch", "classify", "compare",
     "avail_console", "avail_beep", "avail_capture", "avail_send", "avail_post",
     "none_console", "none_capture", "assign", "reload", "sleep"}

-----------------------------------------------------------------------------
(* Pages                                                                   *)

RECURSIVE Join(_, _)
\* the words of ws with gap between neighbours
Join(ws, gap) ==
    IF ws = <<>> THEN <<>>
    ELSE IF Len(ws) = 1 THEN ws[1]
    ELSE ws[1] \o gap \o Join(Tail(ws), gap)

\* "Horaires disponibles: 09:15, 10:30, 14h00"
PageHoraires ==
    Join(<< <<"H", "o", "r", "a", "i", "r", "e", "s">>,
            <<"d", "i", "s", "p", "o", "n", "i", "b", "l", "e", "s", ":">>,
            <<"0", "9", ":", "1", "5", ",">>,
            <<"1", "0", ":", "3", "0", ",">>,
            <<"1", "4", "h", "0", "0">> >>, <<" ">>)

\* "Plus de créneau disponible. Prochain rendez-vous: 09:00"
PagePlusDeCreneau ==
    Join(<< <<"P", "l", "u", "s">>, <<"d", "e">>,
            <<"c", "r", "e'", "n", "e", "a", "u">>,
            <<"d", "i", "s", "p", "o", "n", "i", "b", "l", "e", ".">>,
            <<"P", "r", "o", "c", "h", "a", "i", "n">>,
            <<"r", "e", "n", "d", "e", "z", "-", "v", "o", "u", "s", ":">>,
            <<"0", "9", ":", "0", "0">> >>, <<" ">>)

\* "Aucun créneau disponible. Dernier rendez-vous: 14h30"
PageAucunCreneau ==
    Join(<< <<"A", "u", "c", "u", "n">>,
            <<"c", "r", "e'", "n", "e", "a", "u">>,
            <<"d", "i", "s", "p", "o", "n", "i", "b", "l", "e", ".">>,
            <<"D", "e", "r", "n", "i", "e", "r">>,
            <<"r", "e", "n", "d", "e", "z", "-", "v", "o", "u", "s", ":">>,
            <<"1", "4", "h", "3", "0">> >>, <<" ">>)

\* the texts page.inner_text("body") returns in the monitoring loop
Pages == {<<>>, PageHoraires, PagePlusDeCreneau, PageAucunCreneau}

-----------------------------------------------------------------------------
(* The program                                                             *)

\* longest window of cycles the history variables labels and dispatched record
MaxCycles == 5

Emit(es) == effects' = effects \o es

Raise(e) == exc' = e /\ hstack' = HandlersAt(pc)

Config == <<HEADLESS, TELEGRAM_BOT_TOKEN, TELEGRAM_CHAT_ID>>

Locals == <<content_text, has_slots, status, last_status>>

History == <<labels, dispatched>>

\* the locals of main are unbound until their first assignment; nothing reads
\* them before it
Init ==
    /\ pc = "start"
    /\ HEADLESS \in BOOLEAN
    /\ TELEGRAM_BOT_TOKEN \in BOOLEAN
    /\ TELEGRAM_CHAT_ID \in BOOLEAN
    /\ content_text = <<>>
    /\ has_slots = FALSE
    /\ status = "unbound"
    /\ last_status = "unbound"
    /\ exc = "none"
    /\ hstack = <<>>
    /\ exit_code = "running"
    /\ effects = <<>>
    /\ labels = <<>>
    /\ dispatched = <<>>

\* lines 106-120: start Playwright, launch the browser, open a page
Launch ==
    /\ pc = "start" /\ exc = "none"
    /\ \E outcome \in {"ok", Fault} :
          IF outcome = "ok"
          THEN /\ pc' = "goto"
               /\ Emit(<<"log:launch", "log:open">>)
               /\ UNCHANGED <<exc, hstack>>
          ELSE /\ Raise(outcome)
               /\ Emit(<<"log:launch">>)
               /\ UNCHANGED pc
    /\ UNCHANGED <<Config, Locals, History, exit_code>>

\* lines 121-122: page.goto
Goto ==
    /\ pc = "goto" /\ exc = "none"
    /\ \E outcome \in {"ok", Timeout, Fault} :
          IF outcome = "ok"
          THEN pc' = "ensure" /\ UNCHANGED <<exc, hstack>>
          ELSE Raise(outcome) /\ UNCHANGED pc
    /\ UNCHANGED <<Config, Locals, History, exit_code, effects>>

\* lines 84-89 without the test of HEADLESS: the checkpoint is always skipped
ensure_never_waits ==
    /\ pc = "ensure" /\ exc = "none"
    /\ pc' = "monitor" /\ Emit(<<"log:headless_warning", "log:headless_usage">>)
    /\ UNCHANGED <<Config, Locals, History, exc, hstack, exit_code>>

\* lines 84-89
ensure_on_slot_page_if_needed ==
    /\ pc = "ensure" /\ exc = "none"
    /\ IF HEADLESS
       THEN pc' = "monitor" /\ Emit(<<"log:headless_warning", "log:headless_usage">>)
       ELSE pc' = "input" /\ Emit(<<"log:navigate", "log:captcha">>)
    /\ UNCHANGED <<Config, Locals, History, exc, hstack, exit_code>>

\* lines 90-91: input() returns when the user presses ENTER
Input ==
    /\ pc = "input" /\ exc = "none"
    /\ pc' = "monitor"
    /\ UNCHANGED <<Config, Locals, History, exc, hstack, exit_code, effects>>

\* lines 128-129
StartMonitoring ==
    /\ pc = "monitor" /\ exc = "none"
    /\ pc' = "fetch"
    /\ last_status' = "None"
    /\ Emit(<<"log:monitoring">>)
    /\ UNCHANGED <<Config, content_text, has_slots, status, History, exc, hstack, exit_code>>

\* lines 132-134: page.inner_text; a new cycle begins
Fetch ==
    /\ pc = "fetch" /\ exc = "none"
    /\ effects' = <<>>
    /\ \E outcome \in {"ok", Timeout, Fault} :
          IF outcome = "ok"
          THEN /\ \E text \in Pages : content_text' = text
               /\ pc' = "classify"
               /\ UNCHANGED <<exc, hstack>>
          ELSE Raise(outcome) /\ UNCHANGED <<pc, content_text>>
    /\ UNCHANGED <<Config, has_slots, status, last_status, History, exit_code>>

\* line 138 without its second operand
has_slots_any_time(text) == looks_like_timeslot(text)

\* line 138 without its first operand
has_slots_unless_excluded(text) == ~ looks_like_no_availability(text)

\* line 138 with or in place of and
has_slots_either(text) == looks_like_timeslot(text) \/ ~ looks_like_no_availability(text)

\* line 138
HasSlots(text) == looks_like_timeslot(text) /\ ~ looks_like_no_availability(text)

\* line 139
StatusOf(slots) == IF slots THEN "AVAILABLE" ELSE "NONE"

\* lines 138-139
Classify ==
    /\ pc = "classify" /\ exc = "none"
    /\ has_slots' = HasSlots(content_text)
    /\ status' = StatusOf(has_slots')
    /\ labels' = Append(labels, status')
    /\ pc' = "compare"
    /\ UNCHANGED <<Config, content_text, last_status, dispatched, exc, hstack, exit_code, effects>>

\* line 141 notifying in every cycle
changed_always(new, old) == TRUE

\* line 141 notifying in every cycle that sees slots (level-triggered)
changed_or_available(new, old) == new # old \/ new = "AVAILABLE"

\* line 141 notifying only a change into AVAILABLE
changed_to_available(new, old) == new # old /\ new = "AVAILABLE"

\* line 141
Changed(new, old) == new # old

\* lines 141-142: which branch, if any, the cycle takes
Compare ==
    /\ pc = "compare" /\ exc = "none"
    /\ IF Changed(status, last_status)
       THEN /\ pc' = IF has_slots THEN "avail_console" ELSE "none_console"
            /\ dispatched' = Append(dispatched, status)
       ELSE pc' = "reload" /\ UNCHANGED dispatched
    /\ UNCHANGED <<Config, Locals, labels, exc, hstack, exit_code, effects>>

\* lines 143-144
AvailConsole ==
    /\ pc = "avail_console" /\ exc = "none"
    /\ pc' = "avail_beep"
    /\ Emit(<<"log:available">>)
    /\ UNCHANGED <<Config, Locals, History, exc, hstack, exit_code>>

\* lines 145, 37-42
notify_beep ==
    /\ pc = "avail_beep" /\ exc = "none"
    /\ \E outcome \in {"ok", Fault} :
          IF outcome = "ok"
          THEN pc' = "avail_capture" /\ Emit(<<"beep">>) /\ UNCHANGED <<exc, hstack>>
          ELSE Raise(outcome) /\ Emit(<<"beep">>) /\ UNCHANGED pc
    /\ UNCHANGED <<Config, Locals, History, exit_code>>

\* both calls of capture passing the label of line 150
capture_label_none(p) == "none"

\* the label each call of capture passes, lines 146 and 150
CaptureLabel(p) == IF p = "avail_capture" THEN "slots_detected" ELSE "none"

\* lines 146 and 150, 96-100
capture ==
    /\ pc \in {"avail_capture", "none_capture"} /\ exc = "none"
    /\ \E outcome \in {"ok", Timeout, Fault} :
          IF outcome = "ok"
          THEN /\ pc' = IF pc = "avail_capture" THEN "avail_send" ELSE "assign"
               /\ Emit(<<"screenshot:" \o CaptureLabel(pc), "log:captured">>)
               /\ UNCHANGED <<exc, hstack>>
          ELSE /\ Raise(outcome)
               /\ Emit(<<"screenshot:" \o CaptureLabel(pc)>>)
               /\ UNCHANGED pc
    /\ UNCHANGED <<Config, Locals, History, exit_code>>

\* lines 147, 45-47
send_telegram ==
    /\ pc = "avail_send" /\ exc = "none"
    /\ IF ~ TELEGRAM_BOT_TOKEN \/ ~ TELEGRAM_CHAT_ID
       THEN pc' = "assign" /\ Emit(<<"send_telegram", "return:None">>)
       ELSE pc' = "avail_post" /\ Emit(<<"send_telegram">>)
    /\ UNCHANGED <<Config, Locals, History, exc, hstack, exit_code>>

\* lines 48-52: import requests, requests.post
Post ==
    /\ pc = "avail_post" /\ exc = "none"
    /\ \E outcome \in {"ok", Fault} :
          IF outcome = "ok"
          THEN /\ pc' = "assign"
               /\ Emit(<<"post", "return:status_code">>)
               /\ UNCHANGED <<exc, hstack>>
          ELSE Raise(outcome) /\ Emit(<<"post">>) /\ UNCHANGED pc
    /\ UNCHANGED <<Config, Locals, History, exit_code>>

\* lines 149
NoneConsole ==
    /\ pc = "none_console" /\ exc = "none"
    /\ pc' = "none_capture"
    /\ Emit(<<"log:none">>)
    /\ UNCHANGED <<Config, Locals, History, exc, hstack, exit_code>>

\* line 151 executed only when slots were found
assign_only_available ==
    /\ pc = "assign" /\ exc = "none"
    /\ last_status' = IF has_slots THEN status ELSE last_status
    /\ pc' = "reload"
    /\ UNCHANGED <<Config, content_text, has_slots, status, History, exc, hstack, exit_code, effects>>

\* line 151 followed by a break: the loop is left after the first notification
assign_then_break ==
    /\ pc = "assign" /\ exc = "none"
    /\ last_status' = status
    /\ pc' = "after_loop"
    /\ UNCHANGED <<Config, content_text, has_slots, status, History, exc, hstack, exit_code, effects>>

\* line 151 written so that a notifying cycle skips the reload
assign_skips_reload ==
    /\ pc = "assign" /\ exc = "none"
    /\ last_status' = status
    /\ pc' = "sleep"
    /\ UNCHANGED <<Config, content_text, has_slots, status, History, exc, hstack, exit_code, effects>>

\* line 151
Assign ==
    /\ pc = "assign" /\ exc = "none"
    /\ last_status' = status
    /\ pc' = "reload"
    /\ UNCHANGED <<Config, content_text, has_slots, status, History, exc, hstack, exit_code, effects>>

\* lines 154-155: page.reload
Reload ==
    /\ pc = "reload" /\ exc = "none"
    /\ \E outcome \in {"ok", Timeout, Fault} :
          IF outcome = "ok"
          THEN pc' = "sleep" /\ Emit(<<"reload">>) /\ UNCHANGED <<exc, hstack>>
          ELSE Raise(outcome) /\ Emit(<<"reload">>) /\ UNCHANGED pc
    /\ UNCHANGED <<Config, Locals, History, exit_code>>

\* line 158, and back to line 131.  The history variables keep a window of
\* MaxCycles cycles: a full window restarts from the run the loop is in.
Sleep ==
    /\ pc = "sleep" /\ exc = "none"
    /\ pc' = "fetch"
    /\ IF Len(labels) >= MaxCycles
       THEN /\ labels' = <<labels[Len(labels)]>>
            /\ dispatched' = <<dispatched[Len(dispatched)]>>
       ELSE UNCHANGED History
    /\ UNCHANGED <<Config, Locals, exc, hstack, exit_code, effects>>

\* Ctrl+C: KeyboardInterrupt is raised in the statement the process is at
Interrupt ==
    /\ pc \in Running /\ exc = "none"
    /\ Raise(Interrupted)
    /\ UNCHANGED <<pc, Config, Locals, History, exit_code, effects>>

\* the except clause of lines 135-136 leaving content_text as it was
HandleKeepsText(h) ==
    /\ exc' = "none"
    /\ hstack' = <<>>
    /\ pc' = h.resume
    /\ content_text' = content_text
    /\ exit_code' = IF h.then = "shutdown" THEN 0 ELSE exit_code
    /\ CASE h.then = "log:goto_timeout"      -> Emit(<<"log:goto_timeout">>)
         [] h.then = "log:screenshot_failed" -> Emit(<<"log:screenshot_failed">>)
         [] h.then = "log:telegram_failed"   -> Emit(<<"log:telegram_failed", "return:None">>)
         [] h.then = "log:reload_timeout"    -> Emit(<<"log:reload_timeout">>)
         [] h.then = "shutdown"              -> Emit(<<"shutdown">>)
         [] OTHER                            -> UNCHANGED effects

\* the body of the except clause h, which has caught the exception
Handle(h) ==
    /\ exc' = "none"
    /\ hstack' = <<>>
    /\ pc' = h.resume
    /\ content_text' = IF h.then = "empty_text" THEN <<>> ELSE content_text
    /\ exit_code' = IF h.then = "shutdown" THEN 0 ELSE exit_code
    /\ CASE h.then = "log:goto_timeout"      -> Emit(<<"log:goto_timeout">>)
         [] h.then = "log:screenshot_failed" -> Emit(<<"log:screenshot_failed">>)
         [] h.then = "log:telegram_failed"   -> Emit(<<"log:telegram_failed", "return:None">>)
         [] h.then = "log:reload_timeout"    -> Emit(<<"log:reload_timeout">>)
         [] h.then = "shutdown"              -> Emit(<<"shutdown">>)
         [] OTHER                            -> UNCHANGED effects

\* the exception in flight meets the next enclosing except clause; with none
\* left the interpreter prints the traceback and exits with code 1
Propagate ==
    /\ exc # "none"
    /\ IF hstack = <<>>
       THEN /\ pc' = "crashed"
            /\ exit_code' = 1
            /\ exc' = "none"
            /\ UNCHANGED <<hstack, content_text, effects>>
       ELSE IF Catches(exc, Head(hstack).catches) /\ Head(hstack).then # "raise"
            THEN Handle(Head(hstack))
            ELSE /\ hstack' = Tail(hstack)
                 /\ UNCHANGED <<pc, exc, content_text, exit_code, effects>>
    /\ UNCHANGED <<Config, has_slots, status, last_status, History>>

Next ==
    \/ Launch
    \/ Goto
    \/ ensure_on_slot_page_if_needed
    \/ Input
    \/ StartMonitoring
    \/ Fetch
    \/ Classify
    \/ Compare
    \/ AvailConsole
    \/ notify_beep
    \/ capture
    \/ send_telegram
    \/ Post
    \/ NoneConsole
    \/ Assign
    \/ Reload
    \/ Sleep
    \/ Interrupt
    \/ Propagate

Spec == Init /\ [][Next]_vars

\* The interpreter runs one thread and every call made by lines 106-158 either
\* returns or raises: a statement that can be executed eventually is.
SpecLive == Init /\ [][Next]_vars /\ WF_vars(Next)

-----------------------------------------------------------------------------
(* The classifier on its own: lines 138-139 applied to one text drawn from *)
(* a bounded set of texts.                                                 *)

\* str.upper() on one character; U+017F upper-cases to "S"
UpperChar(c) ==
    IF c \in Range(LowerLetters) THEN UpperLetters[IndexOf(c, LowerLetters)]
    ELSE IF c = "long-s" THEN "S" ELSE c

upper(text) == [i \in DOMAIN text |-> UpperChar(text[i])]

\* fragments of the phrases the patterns look for, and time tokens
Pieces ==
    { << <<"p", "a", "s">>, <<"d", "e">> >>,
      << <<"p", "l", "u", "s">>, <<"d", "e">> >>,
      << <<"a", "u", "c", "u", "n">> >>,
      << <<"a", "u", "c", "u", "n", "e">> >>,
      << <<"c", "r", "e'", "n", "e", "a", "u">> >>,
      << <<"c", "r", "e", "n", "e", "a", "u">>, <<"d", "i", "s", "p", "o", "n", "i", "b", "l", "e">> >>,
      << <<"p", "l", "a", "g", "e">>, <<"h", "o", "r", "a", "i", "r", "e">> >>,
      << <<"d", "i", "s", "p", "o", "n", "i", "b", "i", "l", "i", "t", "e'", "s">> >>,
      << <<"1", "4", "h", "3", "0">> >>,
      << <<"9", "h">> >> }

\* most pieces a generated text is made of
MaxPieces == 3

RECURSIVE Flatten(_)
Flatten(ps) == IF ps = <<>> THEN <<>> ELSE Head(ps) \o Flatten(Tail(ps))

PieceSeqs == UNION {[1 .. n -> Pieces] : n \in 0 .. MaxPieces}

\* how a generated text is written: what separates two words, and whether
\* the text is in capitals
Styles ==
    { [gap |-> <<" ">>, shout |-> FALSE],
      [gap |-> <<"\n", "\t">>, shout |-> FALSE],
      [gap |-> <<" ">>, shout |-> TRUE] }

Render(ps, style) ==
    LET text == Join(Flatten(ps), style.gap)
    IN  IF style.shout THEN upper(text) ELSE text

\* "NO  CRENEAU   DISPONIBLE"
PageShouted ==
    <<"N", "O", " ", " ", "C", "R", "E", "N", "E", "A", "U", " ", " ", " ",
      "D", "I", "S", "P", "O", "N", "I", "B", "L", "E">>

\* "no creneau disponible"
PageQuiet == sub_spaces(lower(PageShouted))

\* "pa<U+017F> de cr<e acute>neau 9h"
PageLongS ==
    Join(<< <<"p", "a", "long-s">>, <<"d", "e">>,
            <<"c", "r", "e'", "n", "e", "a", "u">>, <<"9", "h">> >>, <<" ">>)

Texts ==
    {Render(ps, style) : ps \in PieceSeqs, style \in Styles}
        \cup Pages \cup {PageShouted, PageQuiet, PageLongS}

InitClassify ==
    /\ pc = "classify"
    /\ HEADLESS = TRUE
    /\ TELEGRAM_BOT_TOKEN = FALSE
    /\ TELEGRAM_CHAT_ID = FALSE
    /\ content_text \in Texts
    /\ has_slots = FALSE
    /\ status = "unbound"
    /\ last_status = "None"
    /\ exc = "none"
    /\ hstack = <<>>
    /\ exit_code = "running"
    /\ effects = <<>>
    /\ labels = <<>>
    /\ dispatched = <<>>

NextClassify == Classify

SpecClassify == InitClassify /\ [][NextClassify]_vars

-----------------------------------------------------------------------------
(* Properties                                                              *)

\* the events of effects that e is one of
Only(es, S) == LET Keep(e) == e \in S IN SelectSeq(es, Keep)

Count(e) == Len(Only(effects, {e}))

Position(e) == CHOOSE i \in 1 .. Len(effects) : effects[i] = e /\ \A j \in 1 .. (i - 1) : effects[j] # e

\* what a notification does
NotificationEvents ==
    {"log:available", "log:none", "beep", "screenshot:slots_detected", "screenshot:none",
     "log:captured", "log:screenshot_failed", "send_telegram", "post", "return:None",
     "return:status_code", "log:telegram_failed"}

Notified == Only(effects, NotificationEvents) # <<>>

NotifyPositions ==
    {"avail_console", "avail_beep", "avail_capture", "avail_send", "avail_post",
     "none_console", "none_capture"}

AfterCompare == NotifyPositions \cup {"assign", "reload", "sleep"}

\* the first label of every maximal run of equal labels of l
RunHeads(l) ==
    LET F[i \in 0 .. Len(l)] ==
            IF i = 0 THEN <<>>
            ELSE IF i = 1 \/ l[i] # l[i - 1] THEN Append(F[i - 1], l[i]) ELSE F[i - 1]
    IN  F[Len(l)]

\* the label of the cycle before the current one ("None" before the first cycle)
PreviousLabel == IF Len(labels) <= 1 THEN "None" ELSE labels[Len(labels) - 1]

C1_Decision ==
    (pc = "compare" /\ exc = "none" /\ exc' = "none")
        => /\ (status # last_status) <=> (pc' \in {"avail_console", "none_console"})
           /\ (status = last_status) => (pc' = "reload" /\ effects' = <<>>)

C1_OnlyInBranch ==
    (Len(Only(effects', NotificationEvents)) > Len(Only(effects, NotificationEvents)))
        => pc \in NotifyPositions

C1_CycleEnd ==
    (pc \in {"reload", "sleep"}) => (Notified <=> (status # PreviousLabel))

\* C1: a cycle dispatches a notification if and only if the label it classified
\* differs from the label stored by the cycle before it (None before the first
\* cycle); a cycle whose label equals the stored one does nothing of a notification.
C1_EdgeTriggered == [] C1_CycleEnd /\ [][C1_Decision /\ C1_OnlyInBranch]_vars

\* a second cycle has classified the same label as the first and stayed silent
C1_Witness ==
    /\ pc = "reload" /\ exc = "none"
    /\ Len(labels) = 2 /\ labels[1] = labels[2]
    /\ effects = <<>>
    /\ dispatched = <<labels[1]>>

\* C2: the notifications dispatched so far are one per maximal run of equal
\* labels among the labels classified so far, in order; the labels NONE, NONE,
\* AVAILABLE, AVAILABLE, NONE give the three dispatches NONE, AVAILABLE, NONE.
C2_OncePerRun ==
    /\ (pc \in AfterCompare) =>
          /\ dispatched = RunHeads(labels)
          /\ Len(labels) >= 1 => Len(dispatched) >= 1
    /\ (pc \in AfterCompare /\ labels = <<"NONE", "NONE", "AVAILABLE", "AVAILABLE", "NONE">>)
          => dispatched = <<"NONE", "AVAILABLE", "NONE">>

C2_Witness ==
    /\ pc = "sleep"
    /\ labels = <<"NONE", "NONE", "AVAILABLE", "AVAILABLE", "NONE">>
    /\ dispatched = <<"NONE", "AVAILABLE", "NONE">>

\* C3: the text "Plus de créneau disponible. Prochain rendez-vous: 09:00" is
\* classified NONE and its cycle dispatches no AVAILABLE notification.
C3_PlusDeCreneauIsNone ==
    (content_text = PagePlusDeCreneau /\ pc \in AfterCompare \cup {"compare"})
        => /\ status = "NONE"
           /\ pc \notin {"avail_console", "avail_beep", "avail_capture", "avail_send", "avail_post"}

\* C4: a text whose normalized form matches a no-availability pattern is
\* classified NONE, whether or not it also matches a time-of-day pattern.
C4_ExclusionWins ==
    (pc = "compare" /\ looks_like_no_availability(content_text)) => status = "NONE"

C4_Witness ==
    /\ pc = "compare"
    /\ looks_like_no_availability(content_text)
    /\ looks_like_timeslot(content_text)
    /\ status = "NONE"

\* w is written like a time of day: 9h, 14h, 09:15, 14h30, 9H30
TimeShape(w) ==
    LET n == Len(w)
    IN  \/ /\ n \in {2, 3}
           /\ w[n] \in {"h", "H"}
           /\ \A k \in 1 .. (n - 1) : w[k] \in Digits
        \/ /\ n \in {4, 5}
           /\ w[n - 2] \in {":", "h", "H"}
           /\ \A k \in (1 .. n) \ {n - 2} : w[k] \in Digits

\* a time of day stands in t as a token: no letter, digit or underscore touches it
ContainsTimeToken(t) ==
    \E i \in 1 .. Len(t) : \E j \in (i + 1) .. (i + 4) :
        /\ j <= Len(t)
        /\ TimeShape(SubSeq(t, i, j))
        /\ (i = 1 \/ t[i - 1] \notin WordChars)
        /\ (j = Len(t) \/ t[j + 1] \notin WordChars)

\* C5: a text that contains a time-of-day token and matches no no-availability
\* pattern is classified AVAILABLE; so is "Horaires disponibles: 09:15, 10:30, 14h00".
C5_TimeTokenIsAvailable ==
    /\ (pc = "compare" /\ ContainsTimeToken(content_text) /\ ~ looks_like_no_availability(content_text))
          => status = "AVAILABLE"
    /\ (pc = "compare" /\ content_text = PageHoraires) => status = "AVAILABLE"

C5_Witness ==
    /\ pc = "compare"
    /\ content_text = PageHoraires
    /\ ContainsTimeToken(content_text)
    /\ status = "AVAILABLE"

\* C6: a text that matches neither a time-of-day pattern nor a no-availability
\* pattern, the empty text among them, is classified NONE.
C6_DefaultIsNone ==
    /\ (pc = "compare" /\ ~ looks_like_timeslot(content_text) /\ ~ looks_like_no_availability(content_text))
          => status = "NONE"
    /\ (pc = "compare" /\ content_text = <<>>) => status = "NONE"

C6_Witness ==
    /\ pc = "compare"
    /\ content_text = <<>>
    /\ status = "NONE"

\* every whitespace character of t followed by the characters of w
Widen(t, w) ==
    LET F[i \in 0 .. Len(t)] ==
            IF i = 0 THEN <<>>
            ELSE IF t[i] \in Whitespace THEN F[i - 1] \o <<t[i]>> \o w ELSE Append(F[i - 1], t[i])
    IN  F[Len(t)]

CaseAndSpaceVariants(t) ==
    {upper(t), lower(t), sub_spaces(t), Widen(t, <<" ">>), Widen(t, <<"\t", "nbsp">>)}

\* C7: the label of a text is the label of the text in upper case, in lower
\* case, and with every run of whitespace widened or collapsed to one space.
C7_CaseAndSpaceInsensitive ==
    (pc = "compare") =>
        \A v \in CaseAndSpaceVariants(content_text) : StatusOf(HasSlots(v)) = status

CoreEvents ==
    {"log:available", "log:none", "beep", "screenshot:slots_detected", "screenshot:none",
     "send_telegram"}

\* C8: a notification of AVAILABLE is a console line, a beep, a screenshot
\* labelled slots_detected and one call of send_telegram, in this order; a
\* notification of NONE is a console line and a screenshot labelled none only.
C8_NotificationSteps ==
    (pc = "assign") =>
        /\ status = "AVAILABLE" =>
              Only(effects, CoreEvents) = <<"log:available", "beep", "screenshot:slots_detected", "send_telegram">>
        /\ status = "NONE" =>
              /\ Only(effects, CoreEvents) = <<"log:none", "screenshot:none">>
              /\ Count("post") = 0

C8_Witness ==
    /\ pc = "assign" /\ exc = "none"
    /\ status = "AVAILABLE"
    /\ Only(effects, CoreEvents) = <<"log:available", "beep", "screenshot:slots_detected", "send_telegram">>

CredentialsMissing == ~ TELEGRAM_BOT_TOKEN \/ ~ TELEGRAM_CHAT_ID

C9_Returned ==
    (pc = "assign" /\ status = "AVAILABLE") =>
        /\ Count("send_telegram") = 1
        /\ Count("post") <= 1
        /\ CredentialsMissing => (Count("post") = 0 /\ Count("return:None") = 1 /\ Count("log:telegram_failed") = 0)
        /\ Count("log:telegram_failed") = 1 => Count("return:None") = 1
        /\ Count("screenshot:slots_detected") = 1
        /\ Position("screenshot:slots_detected") < Position("send_telegram")

C9_Step ==
    /\ (pc = "avail_post" /\ exc = Fault) => (pc' \in {"avail_post", "assign"} /\ exit_code' = "running")
    /\ (pc = "avail_send" /\ exc = "none" /\ exc' = "none" /\ CredentialsMissing) => pc' = "assign"
    /\ (pc = "assign" /\ exc = "none" /\ exc' = "none") => (last_status' = status /\ pc' = "reload")
    /\ (pc \in {"assign", "reload", "sleep"}) =>
          Only(effects', {"send_telegram", "post"}) \in {Only(effects, {"send_telegram", "post"}), <<>>}

\* C9: send_telegram never raises into main: without both credentials it returns
\* None and posts nothing, a failing post is logged and returns None; the
\* screenshot came before it, it is called once, and the cycle goes on to store
\* the label and to reload.
C9_SendNeverRaises == [] C9_Returned /\ [][C9_Step]_vars

\* a post has failed after the screenshot was saved, and main is about to store the label
C9_Witness ==
    /\ pc = "assign" /\ exc = "none"
    /\ Count("log:telegram_failed") = 1
    /\ Count("log:captured") = 1
    /\ last_status # "AVAILABLE"

C10_Step ==
    /\ (exc = Interrupted) =>
          \/ exc' = Interrupted /\ pc' = pc /\ exit_code' = "running"
          \/ /\ pc' = "exited" /\ exit_code' = 0 /\ exc' = "none"
             /\ effects' = Append(effects, "shutdown")
    /\ (pc = "exited") => UNCHANGED vars

\* C10: an interrupt raised at any position of main passes every local except
\* clause, is caught by the clause of the __main__ block, which prints the
\* shutdown message and exits with code 0; nothing runs after it.
C10_InterruptShutsDown ==
    /\ [] ((pc \in Running /\ exc = "none") => ENABLED Interrupt)
    /\ [] (pc = "exited" => (exit_code = 0 /\ Count("shutdown") = 1))
    /\ [][C10_Step]_vars

\* the interrupt came while input() was waiting for the user
C10_Witness ==
    /\ pc = "exited" /\ exit_code = 0
    /\ ~ HEADLESS
    /\ last_status = "unbound"
    /\ effects = <<"log:launch", "log:open", "log:navigate", "log:captcha", "shutdown">>

\* where the failures the program recovers from are raised
RecoveredAt == {"goto", "fetch", "reload", "avail_capture", "none_capture", "avail_post"}

FailureLogLines ==
    {"log:goto_timeout", "log:fetch_timeout", "log:reload_timeout", "log:screenshot_failed",
     "log:telegram_failed"}

C11_Step ==
    (pc \in RecoveredAt /\ exc \in {Timeout, Fault} /\ exc' = "none" /\ pc' # "crashed")
        => /\ Len(effects') > Len(effects)
           /\ effects'[Len(effects) + 1] \in FailureLogLines
           /\ pc' \in Running

\* C11: every recovered failure (timeout of the fetch, of the reload, of the
\* initial load, a failed screenshot, a failed send) prints a console line when
\* it is recovered, and monitoring goes on.
C11_FailuresAreLogged == [][C11_Step]_vars

\* the positions that may follow position p inside a cycle
Successors(p) ==
    CASE p = "fetch"         -> {"classify"}
      [] p = "classify"      -> {"compare"}
      [] p = "compare"       -> {"avail_console", "none_console", "reload"}
      [] p = "avail_console" -> {"avail_beep"}
      [] p = "avail_beep"    -> {"avail_capture"}
      [] p = "avail_capture" -> {"avail_send"}
      [] p = "avail_send"    -> {"avail_post", "assign"}
      [] p = "avail_post"    -> {"assign"}
      [] p = "none_console"  -> {"none_capture"}
      [] p = "none_capture"  -> {"assign"}
      [] p = "assign"        -> {"reload"}
      [] p = "reload"        -> {"sleep"}
      [] p = "sleep"         -> {"fetch"}
      [] OTHER               -> Running

InCycle == Running \ {"start", "goto", "ensure", "input", "monitor"}

C12_Order ==
    /\ (pc \in InCycle /\ pc' # pc /\ pc' \notin {"exited", "crashed"}) => pc' \in Successors(pc)
    /\ (pc' = "fetch" /\ pc # "fetch") => pc \in {"monitor", "sleep"}
    /\ (pc = "reload" /\ exc = Timeout /\ exc' = "none")
          => (pc' = "sleep" /\ effects' = Append(effects, "log:reload_timeout"))

C12_OneReload ==
    /\ (pc = "sleep") => Count("reload") = 1
    /\ (pc \in InCycle \ {"sleep", "reload", "fetch"}) => Count("reload") = 0

\* C12: a cycle goes through fetch, classify, notify-if-changed, reload, sleep in
\* this order and reloads exactly once, notification or not; a reload timeout is
\* logged and the cycle goes on to the sleep; the next fetch starts only from the sleep.
C12_CycleOrder == [] C12_OneReload /\ [][C12_Order]_vars

\* a notifying cycle whose reload timed out has reached its sleep
C12_Witness ==
    /\ pc = "sleep" /\ exc = "none"
    /\ Notified
    /\ Count("log:reload_timeout") = 1
    /\ Count("reload") = 1

\* the positions of the one-time setup, lines 106-129
Setup == {"start", "goto", "ensure", "input", "monitor"}

C13_BeforeMonitoring ==
    /\ (pc \in Setup) =>
          /\ labels = <<>> /\ dispatched = <<>>
          /\ status = "unbound"
          /\ ~ Notified
    /\ HEADLESS => pc # "input"
    /\ (pc = "monitor" /\ HEADLESS) => Count("log:headless_warning") = 1
    /\ (pc = "monitor" /\ ~ HEADLESS) => Count("log:captcha") = 1

C13_Step ==
    /\ (pc = "goto" /\ exc = Timeout /\ exc' = "none")
          => (pc' = "ensure" /\ effects' = Append(effects, "log:goto_timeout"))
    /\ (pc = "ensure" /\ pc' # pc /\ pc' # "exited")
          => pc' = IF HEADLESS THEN "monitor" ELSE "input"
    /\ (pc' = "monitor" /\ pc # "monitor")
          => \/ HEADLESS /\ pc = "ensure"
             \/ ~ HEADLESS /\ pc = "input" /\ exc = "none"
    /\ (pc = "monitor" /\ pc' # pc /\ pc' # "exited") => pc' = "fetch"
    /\ (pc \notin Setup) => pc' \notin Setup

\* C13: the setup runs once, before any cycle: the initial-load timeout is
\* tolerated; with HEADLESS the checkpoint is skipped with a warning; without it
\* nothing is fetched, classified or notified before input() has returned; the
\* loop then starts unconditionally.
C13_SetupOnce == [] C13_BeforeMonitoring /\ [][C13_Step]_vars

\* the initial load timed out, the user has confirmed, the first fetch is next
C13_Witness ==
    /\ pc = "fetch" /\ exc = "none"
    /\ ~ HEADLESS
    /\ labels = <<>>
    /\ effects = <<"log:launch", "log:open", "log:goto_timeout", "log:navigate", "log:captcha",
                   "log:monitoring">>

\* no Ctrl+C is in flight and no exception has left main
Undisturbed == exc # Interrupted /\ pc # "crashed"

\* C14: the loop has no terminal state of its own: in a run without interrupt
\* and without unexpected fault, whatever labels, timeouts, screenshot failures
\* and send failures occur, page.inner_text is called infinitely often.
C14_LoopNeverEnds == ([] Undisturbed) => ([]<> <<Fetch>>_vars)

\* a full window of cycles has run, the last with a failed screenshot and a
\* reload timeout, and the loop is about to start the next one
C14_Witness ==
    /\ pc = "sleep" /\ exc = "none" /\ exit_code = "running"
    /\ Len(labels) = MaxCycles
    /\ Count("log:screenshot_failed") = 1
    /\ Count("log:reload_timeout") = 1

C15_Step ==
    (pc \in {"avail_capture", "none_capture"} /\ exc \in {Timeout, Fault} /\ exc' = "none")
        => /\ effects' = Append(effects, "log:screenshot_failed")
           /\ pc' = IF pc = "avail_capture" THEN "avail_send" ELSE "assign"

C15_AfterFailure ==
    (pc \in {"reload", "sleep"} /\ Count("log:screenshot_failed") = 1)
        => /\ last_status = status
           /\ status = "AVAILABLE"
                 => /\ Count("send_telegram") = 1
                    /\ Position("send_telegram") > Position("log:screenshot_failed")

\* C15: a failed screenshot is logged and the notification goes on: for
\* AVAILABLE send_telegram is still called, after the failure, and for either
\* label last_status is updated before the reload.
C15_ScreenshotFailureTolerated == [] C15_AfterFailure /\ [][C15_Step]_vars

\* the screenshot of an AVAILABLE notification failed and the message was sent
C15_Witness ==
    /\ pc = "reload" /\ exc = "none"
    /\ last_status = "AVAILABLE"
    /\ Only(effects, {"log:screenshot_failed", "send_telegram", "post"})
          = <<"log:screenshot_failed", "send_telegram", "post">>

C16_Step ==
    /\ (pc = "fetch" /\ exc = Timeout) => (pc' \in {"fetch", "classify"} /\ exit_code' = exit_code)
    /\ (pc = "fetch" /\ exc = Timeout /\ exc' = "none")
          => (pc' = "classify" /\ content_text' = <<>> /\ effects' = effects)
    /\ (pc = "classify" /\ content_text = <<>> /\ pc' = "compare") => status' = "NONE"

C16_EmptyCycle ==
    (content_text = <<>> /\ pc \in AfterCompare \cup {"compare"})
        => /\ status = "NONE" /\ ~ has_slots
           /\ Only(effects, CoreEvents) \in {<<>>, <<"log:none">>, <<"log:none", "screenshot:none">>}
           /\ (pc = "sleep") => (Count("reload") = 1 /\ last_status = "NONE")

\* C16: a timeout of page.inner_text is not raised further: the cycle goes on
\* with the empty string, which classifies as NONE, and the notification (if
\* the label changed), the reload and the sleep follow as in any NONE cycle.
C16_FetchTimeoutIsNone == [] C16_EmptyCycle /\ [][C16_Step]_vars

\* page.inner_text has timed out in a cycle that follows an AVAILABLE one
C16_Witness ==
    /\ pc = "fetch" /\ exc = Timeout
    /\ content_text = PageHoraires
    /\ last_status = "AVAILABLE"

C17_Step ==
    /\ (pc \in {"fetch", "reload"} /\ exc = Fault)
          => \/ pc' = pc /\ exc' = Fault
             \/ pc' = "crashed" /\ exit_code' = 1 /\ effects' = effects
    /\ pc # "crashed"

C17_Crashed == (pc = "crashed") => (exit_code = 1 /\ Count("shutdown") = 0)

\* C17: an exception of page.inner_text or page.reload that is not a timeout
\* is caught nowhere: it leaves main, the process ends with the exit code of an
\* uncaught exception and without the shutdown message, and no statement of the
\* program runs afterwards.
C17_FaultPropagates == [] C17_Crashed /\ [][C17_Step]_vars

\* page.reload raised in the second cycle or later and the process has ended
C17_Witness ==
    /\ pc = "crashed" /\ exit_code = 1
    /\ Len(labels) >= 2
    /\ Count("reload") = 1

\* the label by the exclusion pattern first, then the time pattern
ExclusionFirst(no_availability, timeslot) ==
    IF no_availability THEN "NONE" ELSE IF timeslot THEN "AVAILABLE" ELSE "NONE"

\* the label by the single expression matches(time) AND NOT matches(no-availability)
SingleExpression(no_availability, timeslot) ==
    IF timeslot /\ ~ no_availability THEN "AVAILABLE" ELSE "NONE"

\* C18: deciding by the exclusion pattern first and deciding by the single
\* expression give the same label for the four combinations of the two match
\* results, and the label of lines 138-139 is that label.
C18_FormulationsAgree ==
    /\ \A na \in BOOLEAN, ts \in BOOLEAN : ExclusionFirst(na, ts) = SingleExpression(na, ts)
    /\ (pc = "compare")
          => /\ status = ExclusionFirst(looks_like_no_availability(content_text),
                                        looks_like_timeslot(content_text))
             /\ status = SingleExpression(looks_like_no_availability(content_text),
                                          looks_like_timeslot(content_text))

\* a classified text that matches the exclusion pattern and no time pattern
C18_Witness ==
    /\ pc = "compare"
    /\ looks_like_no_availability(content_text)
    /\ ~ looks_like_timeslot(content_text)
    /\ status = ExclusionFirst(TRUE, FALSE)

\* the fetch timed out while AVAILABLE was stored
C19_Lost ==
    /\ (pc = "fetch" /\ exc = Timeout /\ exc' = "none" /\ last_status = "AVAILABLE")
          => (pc' = "classify" /\ content_text' = <<>>)
    /\ (pc = "compare" /\ exc = "none" /\ pc' # pc /\ content_text = <<>> /\ last_status = "AVAILABLE")
          => (pc' = "none_console" /\ dispatched' = Append(dispatched, "NONE"))
    /\ (pc = "assign" /\ pc' = "reload" /\ content_text = <<>>)
          => /\ last_status' = "NONE"
             /\ Only(effects, CoreEvents) = <<"log:none", "screenshot:none">>

\* the next fetch returns a page with slots
C19_Again ==
    /\ (pc = "compare" /\ exc = "none" /\ pc' # pc /\ status = "AVAILABLE" /\ last_status = "NONE")
          => (pc' = "avail_console" /\ dispatched' = Append(dispatched, "AVAILABLE"))
    /\ (pc = "assign" /\ pc' = "reload" /\ status = "AVAILABLE")
          => /\ last_status' = "AVAILABLE"
             /\ Only(effects, CoreEvents)
                   = <<"log:available", "beep", "screenshot:slots_detected", "send_telegram">>

\* C19: a fetch timeout while AVAILABLE is stored makes the cycle dispatch a
\* NONE notification (console line, screenshot "none") and store NONE; a
\* following cycle that fetches a page with slots dispatches an AVAILABLE
\* notification (console line, beep, screenshot, send_telegram) again.
C19_TimeoutRenotifies == [][C19_Lost /\ C19_Again]_vars

\* slots, then nothing, then the same page with slots: three notifications
C19_Witness ==
    /\ pc = "sleep" /\ exc = "none"
    /\ labels = <<"AVAILABLE", "NONE", "AVAILABLE">>
    /\ dispatched = <<"AVAILABLE", "NONE", "AVAILABLE">>
    /\ content_text = PageHoraires
    /\ last_status = "AVAILABLE"
    /\ Count("send_telegram") = 1

\* between the end of a cycle's work and the classification of the next one
BetweenCycles == {"reload", "sleep", "fetch", "classify"}

C20_Stored ==
    /\ (pc \in {"reload", "sleep"}) => (last_status = status /\ status = labels[Len(labels)])
    /\ (pc \in BetweenCycles /\ labels # <<>>) => last_status = labels[Len(labels)]
    /\ (Len(labels) >= 2 \/ (labels # <<>> /\ pc \in BetweenCycles))
          => last_status \in {"AVAILABLE", "NONE"}
    /\ (pc = "assign") => Notified
    /\ \A i \in 1 .. (Len(dispatched) - 1) : dispatched[i] # dispatched[i + 1]

C20_Step == (last_status' # last_status) => pc \in {"monitor", "assign"}

\* C20: after every cycle last_status is the label that cycle classified; it is
\* None only before the first cycle has finished and is assigned only at line
\* 151, inside the notify branch; so successive dispatched notifications carry
\* alternating labels.
C20_StoredLabel == [] C20_Stored /\ [][C20_Step]_vars

\* an unchanged cycle and then a change: two dispatches for three cycles
C20_Witness ==
    /\ pc = "fetch" /\ exc = "none"
    /\ labels = <<"AVAILABLE", "AVAILABLE", "NONE">>
    /\ dispatched = <<"AVAILABLE", "NONE">>
    /\ last_status = "NONE"

====
